---------------------------- MODULE Spec2Model ----------------------------
(***************************************************************************)
(* Actor-critic networks of tmrl/sac_models.py: the squashed-Gaussian      *)
(* policy heads, the action-value heads, and the hidden-state slot of the  *)
(* recurrent modules.                                                      *)
(*                                                                         *)
(* Tensors are records [shape, data] (sizes plus row-major storage).       *)
(* Real quantities are fixed point: mu, the pre-squash value and actions   *)
(* are in hundredths; a standard deviation is a decimal float              *)
(* <<mantissa, exponent>> with a four-digit mantissa.  The log-probability *)
(* is modelled by its presence and shape only.                             *)
(***************************************************************************)
EXTENDS Integers, Sequences, FiniteSets, TLC

VARIABLES theta, cls, inst_of, h, carried, writer, last

vars == <<theta, cls, inst_of, h, carried, writer, last>>

\* Python's None where a tensor or a record is expected, and where a name is
None == [none |-> TRUE]
NoName == "None"

(***************************************************************************)
(* Bounds of the model and sizes of the modules under test.                *)
(***************************************************************************)
MaxBatch == 2
rnn_len == 2
rnn_size == 2
dim_act == 2
hidden_units == 2

LOG_STD_MAX == 2
LOG_STD_MIN == -20

(***************************************************************************)
(* Tensor primitives (torch).                                              *)
(***************************************************************************)
RECURSIVE prod(_)
prod(shape) ==
    IF shape = <<>> THEN 1 ELSE Head(shape) * prod(Tail(shape))

RECURSIVE Sum(_)
Sum(s) ==
    IF s = <<>> THEN 0 ELSE Head(s) + Sum(Tail(s))

RECURSIVE Flatten(_)
Flatten(ss) ==
    IF ss = <<>> THEN <<>> ELSE Head(ss) \o Flatten(Tail(ss))

Front(s) == SubSeq(s, 1, Len(s) - 1)

LastDim(t) == t.shape[Len(t.shape)]

NumRows(t) == prod(Front(t.shape))

Row(t, r) == SubSeq(t.data, (r - 1) * LastDim(t) + 1, r * LastDim(t))

Full(shape, v) == [shape |-> shape, data |-> [i \in 1..prod(shape) |-> v]]

zeros(shape) == Full(shape, 0)

\* torch.cat(ts, -1)
cat(ts) ==
    [shape |-> Front(ts[1].shape) \o <<Sum([k \in 1..Len(ts) |-> LastDim(ts[k])])>>,
     data  |-> Flatten([r \in 1..NumRows(ts[1]) |->
                          Flatten([k \in 1..Len(ts) |-> Row(ts[k], r)])])]

\* nn.Linear(in, out) with every weight w and every bias b
Linear(t, out, w, b) ==
    [shape |-> Front(t.shape) \o <<out>>,
     data  |-> Flatten([r \in 1..NumRows(t) |->
                          [j \in 1..out |-> w * Sum(Row(t, r)) + b]])]

ReLU(t) ==
    [shape |-> t.shape,
     data  |-> [i \in 1..Len(t.data) |-> IF t.data[i] < 0 THEN 0 ELSE t.data[i]]]

Identity(t) == t

\* the value returned without the squeeze
squeeze_lastSkipped(t) == t

\* torch.squeeze(t, -1)
squeeze_last(t) ==
    IF Len(t.shape) > 0 /\ LastDim(t) = 1
    THEN [shape |-> Front(t.shape), data |-> t.data]
    ELSE t

\* t.squeeze()
squeeze(t) ==
    [shape |-> SelectSeq(t.shape, LAMBDA d : d # 1), data |-> t.data]

\* o.view(1, *o.shape)
view1(t) == [shape |-> <<1>> \o t.shape, data |-> t.data]


(***************************************************************************)
(* Scalar numerics.                                                        *)
(***************************************************************************)
RECURSIVE Pow10(_)
Pow10(k) == IF k <= 0 THEN 1 ELSE 10 * Pow10(k - 1)

\* one multiplication of a decimal float by e = 2.718
MulE(f) ==
    LET p == f[1] * 2718
    IN  IF p >= 10000000 THEN <<p \div 10000, f[2] + 1>> ELSE <<p \div 1000, f[2]>>

\* one division of a decimal float by e = 2.718
DivE(f) ==
    LET q == (f[1] * 100000) \div 2718
    IN  IF q >= 100000 THEN <<q \div 100, f[2]>> ELSE <<q \div 10, f[2] - 1>>

\* torch.exp on an integer argument, as a decimal float <<mantissa, exponent>>
RECURSIVE exp(_)
exp(n) ==
    IF n = 0 THEN <<1000, -3>>
    ELSE IF n > 0 THEN MulE(exp(n - 1)) ELSE DivE(exp(n + 1))

\* a decimal float in hundredths (truncated)
ToCenti(f) ==
    IF f[2] + 2 >= 0 THEN f[1] * Pow10(f[2] + 2)
    ELSE IF -(f[2] + 2) > 9 THEN 0
    ELSE f[1] \div Pow10(-(f[2] + 2))

\* torch.clamp(v, lo, hi)
clamp(v, lo, hi) == IF v < lo THEN lo ELSE IF v > hi THEN hi ELSE v

\* torch.tanh in hundredths: the (3,2) Pade approximant, saturating at |x| >= 3
tanhPos(x) ==
    IF x >= 300 THEN 100 ELSE (x * (270000 + x * x)) \div (270000 + 9 * x * x)

tanh(x) == IF x < 0 THEN -tanhPos(-x) ELSE tanhPos(x)

(***************************************************************************)
(* mlp(sizes, activation, output_activation): a stack of Linear layers,    *)
(* ReLU after every layer but the last, which gets the output activation.  *)
(***************************************************************************)
RECURSIVE mlp(_, _, _)
mlp(x, sizes, output_relu) ==
    IF Len(sizes) < 2 THEN x
    ELSE LET y == Linear(x, sizes[2], 1, 0)
             a == IF Len(sizes) > 2 \/ output_relu THEN ReLU(y) ELSE Identity(y)
         IN  mlp(a, Tail(sizes), output_relu)

(***************************************************************************)
(* rnn(input_size, rnn_size, rnn_len): a stacked recurrent layer.  A cell  *)
(* maps (input row, hidden unit) to the new hidden unit; layer l > 1       *)
(* reads the new hidden row of layer l - 1.  Like torch's GRU it refuses   *)
(* an initial state whose shape is not [num_layers, batch, hidden_size].   *)
(***************************************************************************)
Cell(W, inrow, hval) == (W.wx * Sum(inrow) + W.wh * hval) % 3

\* hidden tensor [L, B, S] <-> layers: L sequences of B rows of S units
Layers(t) ==
    [l \in 1..t.shape[1] |->
        [b \in 1..t.shape[2] |->
            SubSeq(t.data, ((l - 1) * t.shape[2] + (b - 1)) * t.shape[3] + 1,
                           ((l - 1) * t.shape[2] + b) * t.shape[3])]]

Stack(rows, shape) == [shape |-> shape, data |-> Flatten([k \in 1..Len(rows) |-> Flatten(rows[k])])]

RECURSIVE StepLayers(_, _, _)
StepLayers(W, inp, hs) ==
    IF hs = <<>> THEN <<>>
    ELSE LET new == [b \in 1..Len(inp) |->
                        [s \in 1..Len(hs[1][b]) |-> Cell(W, inp[b], hs[1][b][s])]]
         IN  <<new>> \o StepLayers(W, new, Tail(hs))

RECURSIVE RunSeq(_, _, _)
RunSeq(W, xs, hs) ==
    IF xs = <<>> THEN [out |-> <<>>, h |-> hs]
    ELSE LET h1   == StepLayers(W, Head(xs), hs)
             rest == RunSeq(W, Tail(xs), h1)
         IN  [out |-> <<h1[Len(h1)]>> \o rest.out, h |-> rest.h]

\* x: [T, B, D]; hx: [L, B, S]
GRU(W, num_layers, hidden_size, x, hx) ==
    IF hx.shape # <<num_layers, x.shape[2], hidden_size>>
    THEN [raised |-> TRUE, out |-> None, h |-> None]
    ELSE LET xs == [t \in 1..x.shape[1] |->
                      [b \in 1..x.shape[2] |-> Row(x, (t - 1) * x.shape[2] + b)]]
             r  == RunSeq(W, xs, Layers(hx))
         IN  [raised |-> FALSE,
              out    |-> Stack(r.out, <<x.shape[1], x.shape[2], hidden_size>>),
              h      |-> Stack(r.h, hx.shape)]

\* net_out[-1] of a [T, B, S] tensor
LastStep(t) ==
    [shape |-> Tail(t.shape),
     data  |-> SubSeq(t.data, (t.shape[1] - 1) * prod(Tail(t.shape)) + 1, Len(t.data))]

(***************************************************************************)
(* The squashed-Gaussian head shared by both actors' forward.              *)
(***************************************************************************)
\* the raw projection used as it is
clamp_log_stdSkipped(log_std) == log_std

\* log_std = torch.clamp(log_std, LOG_STD_MIN, LOG_STD_MAX)
clamp_log_std(log_std) ==
    [shape |-> log_std.shape,
     data  |-> [i \in 1..Len(log_std.data) |->
                  clamp(log_std.data[i], LOG_STD_MIN, LOG_STD_MAX)]]

\* std = torch.exp(log_std)
std_of(log_std) ==
    [shape |-> log_std.shape,
     data  |-> [i \in 1..Len(log_std.data) |-> exp(log_std.data[i])]]

\* pi_distribution.rsample(): loc + scale * eps
rsample(mu, std, eps) ==
    [shape |-> mu.shape,
     data  |-> [i \in 1..Len(mu.data) |-> mu.data[i] + ToCenti(std.data[i]) * eps]]

\* the pre-squash value scaled without the tanh
squashNoTanh(limit, x) ==
    [shape |-> x.shape, data |-> [i \in 1..Len(x.data) |-> limit * x.data[i]]]

\* pi_action = self.act_limit * torch.tanh(pi_action)
squash(limit, x) ==
    [shape |-> x.shape, data |-> [i \in 1..Len(x.data) |-> limit * tanh(x.data[i])]]

\* the sample drawn whatever the flag says
PreSquashAlwaysSamples(deterministic, mu, std, eps) == rsample(mu, std, eps)

\* if deterministic: pi_action = mu else: pi_action = pi_distribution.rsample()
PreSquash(deterministic, mu, std, eps) ==
    IF deterministic THEN mu ELSE rsample(mu, std, eps)

\* mu_layer, log_std_layer, clamp, Normal, (r)sample, log-prob, squash, squeeze
PolicyHead(P, net_out, deterministic, with_logprob, eps) ==
    LET mu      == Linear(net_out, dim_act, P.mu_w, P.mu_b)
        raw     == Linear(net_out, dim_act, P.ls_w, P.ls_b)
        log_std == clamp_log_std(raw)
        std     == std_of(log_std)
        x       == PreSquash(deterministic, mu, std, eps)
    IN  [mu |-> mu, eps |-> eps, raw_log_std |-> raw, log_std |-> log_std, std |-> std, x |-> x,
         logp_pi   |-> IF with_logprob THEN [shape |-> Front(x.shape)] ELSE None,
         pi_action |-> squeeze(squash(P.act_limit, x))]

\* SquashedGaussianMLPActor.forward
MLPActor_forward(P, obs, deterministic, with_logprob, eps) ==
    LET net_out == mlp(cat(obs), <<LastDim(cat(obs)), hidden_units, hidden_units>>, TRUE)
    IN  PolicyHead(P, net_out, deterministic, with_logprob, eps)

\* MLPQFunction.forward
MLPQ_forward(obs, act) ==
    LET x == cat(obs \o <<act>>)
        q == mlp(x, <<LastDim(x), hidden_units, hidden_units, 1>>, FALSE)
    IN  squeeze_last(q)

\* MlpActionValue.forward: Sequential(SacLinear, ReLU, SacLinear, ReLU, Linear(hidden_units, 2))
MlpActionValue_forward(obs, action) ==
    LET x == cat(obs \o <<action>>)
    IN  Linear(mlp(x, <<LastDim(x), hidden_units, hidden_units>>, TRUE), 2, 1, 0)

(***************************************************************************)
(* Recurrent modules: the choice of the initial hidden state, and what     *)
(* the call leaves in self.h.                                              *)
(***************************************************************************)
\* the stored state reused whenever there is one, whatever the mode
InitialHiddenIgnoresMode(self_h, batch_size, save_hidden) ==
    IF self_h = None
    THEN zeros(<<rnn_len, batch_size, rnn_size>>)
    ELSE self_h

\* if not save_hidden or self.h is None: h = zeros(...) else: h = self.h
InitialHidden(self_h, batch_size, save_hidden) ==
    IF ~save_hidden \/ self_h = None
    THEN zeros(<<rnn_len, batch_size, rnn_size>>)
    ELSE self_h

\* the new state never stored
StoredAfterNever(self_h, hn, save_hidden) == self_h

\* the new state stored in every mode
StoredAfterAlways(self_h, hn, save_hidden) == hn

\* if save_hidden: self.h = h
StoredAfter(self_h, hn, save_hidden) ==
    IF save_hidden THEN hn ELSE self_h

\* the slot kept on the class, one for all instances
WrittenSlotsClassLevel(inst) == {"m", "w1", "w2"}

\* the instances whose slot `self.h = h` writes
WrittenSlots(inst) == {inst}

\* SquashedGaussianRNNActor.forward
RNNActor_forward(P, self_h, obs_seq, deterministic, with_logprob, save_hidden, eps) ==
    LET batch_size == obs_seq[1].shape[2]
        h0 == InitialHidden(self_h, batch_size, save_hidden)
        r  == GRU(P, rnn_len, rnn_size, cat(obs_seq), h0)
    IN  IF r.raised
        THEN [raised |-> TRUE, batch_size |-> batch_size, h0 |-> h0, hn |-> None,
              self_h |-> self_h, head |-> None, ret |-> None]
        ELSE LET net_out == mlp(LastStep(r.out), <<rnn_size, hidden_units, hidden_units>>, TRUE)
                 head    == PolicyHead(P, net_out, deterministic, with_logprob, eps)
             IN  [raised |-> FALSE, batch_size |-> batch_size, h0 |-> h0, hn |-> r.h,
                  self_h |-> StoredAfter(self_h, r.h, save_hidden),
                  head |-> head, ret |-> head.pi_action]

\* RNNQFunction.forward
RNNQ_forward(P, self_h, obs_seq, act, save_hidden) ==
    LET batch_size == obs_seq[1].shape[2]
        h0 == InitialHidden(self_h, batch_size, save_hidden)
        r  == GRU(P, rnn_len, rnn_size, cat(obs_seq), h0)
    IN  IF r.raised
        THEN [raised |-> TRUE, batch_size |-> batch_size, h0 |-> h0, hn |-> None,
              self_h |-> self_h, head |-> None, ret |-> None]
        ELSE LET x == cat(<<LastStep(r.out), act>>)
                 q == mlp(x, <<LastDim(x), hidden_units, hidden_units, 1>>, FALSE)
             IN  [raised |-> FALSE, batch_size |-> batch_size, h0 |-> h0, hn |-> r.h,
                  self_h |-> StoredAfter(self_h, r.h, save_hidden),
                  head |-> None, ret |-> squeeze_last(q)]

(***************************************************************************)
(* Inputs.                                                                 *)
(***************************************************************************)
Batches == 1..MaxBatch
ObsFills == {<<1, 1>>, <<1, -1>>}
ActFills == {1}
Workers == {"worker1", "worker2"}
Inst == {"m", "w1", "w2"}
Classes == {"SquashedGaussianMLPActor", "MLPQFunction", "MlpActionValue",
            "SquashedGaussianRNNActor", "RNNQFunction"}

\* the deterministic flag, and the unit noise eps the generator would draw
Modes == [deterministic : BOOLEAN, eps : {-1, 1}]

\* weights of the layers under test and the action bound act_space.high[0]
Params ==
    {[wx |-> 1, wh |-> 1, mu_w |-> 25, mu_b |-> -200, ls_w |-> 1, ls_b |-> -22, act_limit |-> 1],
     [wx |-> 2, wh |-> 1, mu_w |-> 25, mu_b |-> 0, ls_w |-> 1, ls_b |-> -5, act_limit |-> 2]}

\* a tuple of two sub-observations [B, 1] and [B, 2], filled with v[1] and v[2]
Obs(B, v) == <<Full(<<B, 1>>, v[1]), Full(<<B, 2>>, v[2])>>

\* the same with the leading time axis: [T, B, 1] and [T, B, 2]
ObsSeq(T, B, v) == <<Full(<<T, B, 1>>, v[1]), Full(<<T, B, 2>>, v[2])>>

Action(B, a) == Full(<<B, dim_act>>, a)

(***************************************************************************)
(* The record of the most recent call.                                     *)
(***************************************************************************)
NoCall ==
    [op |-> NoName, caller |-> NoName, inst |-> NoName, batch_size |-> 0, obs |-> <<>>,
     deterministic |-> FALSE, save_hidden |-> FALSE, raised |-> FALSE,
     h0 |-> None, hn |-> None, stored_before |-> None, prior |-> None,
     h0_writer |-> NoName, head |-> None, ret |-> None,
     repeat |-> FALSE, same_h0 |-> FALSE, prev_ret |-> None]

PolicyOps == {"MLPActor.forward", "MLPActor.act", "RNNActor.forward", "RNNActor.act"}

\* this call repeats the previous one: same entry point, instance and observation,
\* both deterministic
Repeats(op, inst, obs, deterministic) ==
    /\ op \in PolicyOps
    /\ last.op = op
    /\ last.inst = inst
    /\ last.obs = obs
    /\ last.deterministic
    /\ deterministic

Init ==
    /\ theta \in Params
    /\ cls \in Classes
    /\ inst_of = [w \in Workers |-> "m"]
    /\ h = [i \in Inst |-> None]
    /\ carried = [i \in Inst |-> None]
    /\ writer = [i \in Inst |-> NoName]
    /\ last = NoCall

(***************************************************************************)
(* Feed-forward modules: no state but the record of the call.              *)
(***************************************************************************)
MLPActorCall(op, obs, deterministic, with_logprob, eps) ==
    \E r \in {MLPActor_forward(theta, obs, deterministic, with_logprob, eps)} :
    \E rep \in {Repeats(op, "m", obs, deterministic)} :
        /\ last' = [NoCall EXCEPT !.op = op, !.caller = "main", !.inst = "m",
                       !.batch_size = obs[1].shape[1], !.obs = obs,
                       !.deterministic = deterministic, !.head = r,
                       !.ret = r.pi_action, !.repeat = rep,
                       !.same_h0 = rep,
                       !.prev_ret = IF rep THEN last.ret ELSE None]
        /\ UNCHANGED <<theta, cls, inst_of, h, carried, writer>>

MLPActorForward ==
    /\ cls = "SquashedGaussianMLPActor"
    /\ \E B \in Batches, v \in ObsFills, m \in Modes, wl \in BOOLEAN :
          MLPActorCall("MLPActor.forward", Obs(B, v), m.deterministic, wl, m.eps)

\* SquashedGaussianMLPActor.act and MLPActorCritic.act: forward(obs, deterministic, False)
MLPActorAct ==
    /\ cls = "SquashedGaussianMLPActor"
    /\ \E B \in Batches, v \in ObsFills, m \in Modes :
          MLPActorCall("MLPActor.act", Obs(B, v), m.deterministic, FALSE, m.eps)

MLPQForward ==
    /\ cls = "MLPQFunction"
    /\ \E B \in Batches, v \in ObsFills, a \in ActFills :
          /\ last' = [NoCall EXCEPT !.op = "MLPQ.forward", !.caller = "main", !.inst = "m",
                         !.batch_size = B, !.obs = Obs(B, v),
                         !.ret = MLPQ_forward(Obs(B, v), Action(B, a))]
          /\ UNCHANGED <<theta, cls, inst_of, h, carried, writer>>

MlpActionValueForward ==
    /\ cls = "MlpActionValue"
    /\ \E B \in Batches, v \in ObsFills, a \in ActFills :
          /\ last' = [NoCall EXCEPT !.op = "MlpActionValue.forward", !.caller = "main",
                         !.inst = "m", !.batch_size = B, !.obs = Obs(B, v),
                         !.ret = MlpActionValue_forward(Obs(B, v), Action(B, a))]
          /\ UNCHANGED <<theta, cls, inst_of, h, carried, writer>>

(***************************************************************************)
(* Recurrent modules: a call reads and may replace the slot h[inst].       *)
(* carried[inst] is the state the recurrent layer returned in the most     *)
(* recent save_hidden call on inst, writer[inst] the caller of that call.  *)
(***************************************************************************)
RecurrentCall(op, caller, inst, obs_seq, deterministic, save_hidden, r) ==
    \E rep \in {Repeats(op, inst, obs_seq, deterministic)} :
    \E saved \in {save_hidden /\ ~r.raised} :
        /\ h' = [i \in Inst |-> IF i \in WrittenSlots(inst) THEN r.self_h ELSE h[i]]
        /\ carried' = IF saved THEN [carried EXCEPT ![inst] = r.hn] ELSE carried
        /\ writer' = IF saved
                     THEN [i \in Inst |-> IF i \in WrittenSlots(inst) THEN caller ELSE writer[i]]
                     ELSE writer
        /\ last' = [NoCall EXCEPT !.op = op, !.caller = caller, !.inst = inst,
                       !.batch_size = r.batch_size, !.obs = obs_seq,
                       !.deterministic = deterministic, !.save_hidden = save_hidden,
                       !.raised = r.raised, !.h0 = r.h0, !.hn = r.hn,
                       !.stored_before = h[inst], !.prior = carried[inst],
                       !.h0_writer = IF save_hidden /\ h[inst] # None /\ r.h0 = h[inst]
                                     THEN writer[inst] ELSE NoName,
                       !.head = r.head, !.ret = r.ret,
                       !.repeat = rep, !.same_h0 = (rep /\ last.h0 = r.h0),
                       !.prev_ret = IF rep THEN last.ret ELSE None]
        /\ UNCHANGED <<theta, cls, inst_of>>

\* a training unroll (save_hidden=False) over a sequence, or one persisted step
ForwardArgs ==
    {[T |-> 2, save_hidden |-> FALSE], [T |-> 1, save_hidden |-> TRUE]}

RNNActorForward(caller, inst) ==
    /\ cls = "SquashedGaussianRNNActor"
    /\ \E a \in ForwardArgs, B \in Batches, v \in ObsFills, m \in Modes :
       \E r \in {RNNActor_forward(theta, h[inst], ObsSeq(a.T, B, v), m.deterministic,
                                  TRUE, a.save_hidden, m.eps)} :
          RecurrentCall("RNNActor.forward", caller, inst, ObsSeq(a.T, B, v),
                        m.deterministic, a.save_hidden, r)

\* SquashedGaussianRNNActor.act: adds the sequence axis, forward(..., save_hidden=True)
RNNActorAct(caller, inst, batches) ==
    /\ cls = "SquashedGaussianRNNActor"
    /\ \E B \in batches, v \in ObsFills, m \in Modes :
       \E obs_seq \in {[k \in 1..2 |-> view1(Obs(B, v)[k])]} :
       \E r \in {RNNActor_forward(theta, h[inst], obs_seq, m.deterministic,
                                  FALSE, TRUE, m.eps)} :
          RecurrentCall("RNNActor.act", caller, inst, obs_seq, m.deterministic, TRUE, r)

RNNQForward(caller, inst) ==
    /\ cls = "RNNQFunction"
    /\ \E a \in ForwardArgs, B \in Batches, v \in ObsFills, act \in ActFills :
       \E r \in {RNNQ_forward(theta, h[inst], ObsSeq(a.T, B, v), Action(B, act),
                              a.save_hidden)} :
          RecurrentCall("RNNQ.forward", caller, inst, ObsSeq(a.T, B, v), FALSE,
                        a.save_hidden, r)

\* ActorModule.reset: returns np.array(()), an empty placeholder
Reset ==
    /\ cls = "SquashedGaussianRNNActor"
    /\ last' = [NoCall EXCEPT !.op = "reset", !.caller = "main", !.inst = "m",
                   !.ret = [shape |-> <<0>>, data |-> <<>>]]
    /\ UNCHANGED <<theta, cls, inst_of, h, carried, writer>>

Next ==
    \/ MLPActorForward
    \/ MLPActorAct
    \/ MLPQForward
    \/ MlpActionValueForward
    \/ RNNActorForward("main", "m")
    \/ RNNActorAct("main", "m", Batches)
    \/ RNNQForward("main", "m")
    \/ Reset

Spec == Init /\ [][Next]_vars

(***************************************************************************)
(* Two rollout workers calling act, one observation at a time, either on   *)
(* one shared actor instance or each on its own.                           *)
(***************************************************************************)
InitWorkers ==
    /\ theta \in Params
    /\ cls = "SquashedGaussianRNNActor"
    /\ inst_of \in {[w \in Workers |-> "m"],
                    [w \in Workers |-> IF w = "worker1" THEN "w1" ELSE "w2"]}
    /\ h = [i \in Inst |-> None]
    /\ carried = [i \in Inst |-> None]
    /\ writer = [i \in Inst |-> NoName]
    /\ last = NoCall

NextWorkers == \E w \in Workers : RNNActorAct(w, inst_of[w], {1})

SpecWorkers == InitWorkers /\ [][NextWorkers]_vars

(***************************************************************************)
(* Properties.                                                             *)
(***************************************************************************)
RecurrentOps == {"RNNActor.forward", "RNNActor.act", "RNNQ.forward"}
ValueOps == {"MLPQ.forward", "RNNQ.forward", "MlpActionValue.forward"}

\* the zero state sized to the batch of the last call's input
ZeroForInput == zeros(<<rnn_len, last.obs[1].shape[2], rnn_size>>)

\* C1: after the adapter's reset() the recurrent actor's stored hidden state is
\* absent, so the next persisted call starts from zero.
C1_ResetClearsHidden ==
    last.op = "reset" => h[last.inst] = None

\* C2: a persisted call made while nothing is stored starts from the zero state;
\* every later persisted call starts from exactly the state the recurrent layer
\* returned in the most recent preceding persisted call on the instance; and after
\* a persisted call the slot holds the state the recurrent layer returned in it.
C2_PersistedCarries ==
    (last.op \in RecurrentOps /\ last.save_hidden) =>
        /\ last.stored_before = None => last.h0 = ZeroForInput
        /\ last.prior = None => last.h0 = ZeroForInput
        /\ last.prior # None => last.h0 = last.prior
        /\ ~last.raised => (last.hn # None /\ h[last.inst] = last.hn)

C2_Witness ==
    /\ last.op = "RNNQ.forward"
    /\ last.save_hidden
    /\ ~last.raised
    /\ last.prior # None
    /\ last.prior # zeros(last.prior.shape)
    /\ last.hn # last.prior

\* C3: a fresh-mode call starts from the all-zero state of shape
\* [rnn_len, batch size of the current input, rnn_size], whatever is stored.
C3_FreshStartsFromZero ==
    (last.op \in RecurrentOps /\ ~last.save_hidden) =>
        /\ last.h0 = ZeroForInput
        /\ last.h0.shape = <<rnn_len, last.obs[1].shape[2], rnn_size>>
        /\ ~last.raised

C3_Witness ==
    /\ last.op \in RecurrentOps
    /\ ~last.save_hidden
    /\ last.stored_before # None
    /\ last.stored_before # zeros(last.stored_before.shape)
    /\ last.stored_before.shape[2] # last.batch_size

\* C4: a fresh-mode call leaves the stored slot as it found it, so the slot always
\* holds what the most recent persisted call returned, fresh calls in between or not.
C4_FreshLeavesSlot ==
    /\ (last.op \in RecurrentOps /\ ~last.save_hidden) => h[last.inst] = last.stored_before
    /\ \A i \in Inst : h[i] = carried[i]

C4_Witness ==
    /\ last.op \in RecurrentOps
    /\ ~last.save_hidden
    /\ ~last.raised
    /\ last.stored_before # None
    /\ last.hn # last.stored_before
    /\ last.hn.shape = last.stored_before.shape

\* C5 as stated: two successive deterministic calls of a policy head with the same
\* observation return the same action, the recurrent actor's act included.
C5_DeterministicIdempotent ==
    last.repeat => last.ret = last.prev_ret

\* C5 as amended: they return the same action when both start from the same hidden
\* state (always so for the feed-forward actor, which has none).
C5_IdempotentFromSameState ==
    (last.repeat /\ last.same_h0) => last.ret = last.prev_ret

C5_Witness ==
    /\ last.repeat
    /\ last.same_h0
    /\ last.op = "RNNActor.forward"
    /\ ~last.raised
    /\ last.stored_before # None

\* C6: with one actor instance per worker, every persisted call starts from zero
\* or from a state written by the calling worker itself.
C6_OwnInstanceIsolated ==
    (inst_of["worker1"] # inst_of["worker2"] /\ last.op = "RNNActor.act") =>
        last.h0_writer \in {NoName, last.caller}

\* C6, the shared instance: a call of one worker starts from a state the other wrote.
C6_CrossContamination ==
    /\ inst_of["worker1"] = inst_of["worker2"]
    /\ last.op = "RNNActor.act"
    /\ last.h0_writer \in Workers \ {last.caller}
    /\ last.h0 # zeros(last.h0.shape)

C8_ActionBounded ==
    (last.op \in PolicyOps /\ ~last.raised) =>
        /\ Len(last.ret.data) = Len(last.head.x.data)
        /\ \A i \in 1..Len(last.ret.data) :
              /\ last.ret.data[i] = theta.act_limit * tanh(last.head.x.data[i])
              /\ last.ret.data[i] >= -(theta.act_limit * 100)
              /\ last.ret.data[i] <= theta.act_limit * 100

C8_Witness ==
    /\ last.op \in PolicyOps
    /\ ~last.raised
    /\ ~last.deterministic
    /\ \E i \in 1..Len(last.ret.data) :
          /\ last.head.x.data[i] > 300
          /\ last.ret.data[i] = theta.act_limit * 100

\* C9: the std of the Gaussian is exp of the raw log-std clamped to
\* [LOG_STD_MIN, LOG_STD_MAX], and a sample is drawn with that std.
C9_StdFromClampedLogStd ==
    (last.op \in PolicyOps /\ ~last.raised) =>
        \A i \in 1..Len(last.head.std.data) :
            LET raw == last.head.raw_log_std.data[i]
                sd  == last.head.std.data[i]
            IN  /\ raw < LOG_STD_MIN => sd = exp(LOG_STD_MIN)
                /\ raw > LOG_STD_MAX => sd = exp(LOG_STD_MAX)
                /\ (raw >= LOG_STD_MIN /\ raw <= LOG_STD_MAX) => sd = exp(raw)
                /\ ~last.deterministic =>
                      last.head.x.data[i] = last.head.mu.data[i] + ToCenti(sd) * last.head.eps

C9_Witness ==
    /\ last.op \in PolicyOps
    /\ ~last.raised
    /\ ~last.deterministic
    /\ \E i \in 1..Len(last.head.std.data) :
          /\ last.head.raw_log_std.data[i] > LOG_STD_MAX
          /\ last.head.std.data[i] = exp(LOG_STD_MAX)

\* C10: the hidden state handed to the recurrent layer has shape
\* [rnn_len, B, rnn_size], B the batch size of the current call's input.
C10_HiddenShapeMatchesBatch ==
    last.op \in RecurrentOps =>
        last.h0.shape = <<rnn_len, last.obs[1].shape[2], rnn_size>>

=============================================================================
